---------------------------- MODULE Spec2Model ----------------------------
(* A model of midi_generator/dataset/midi.py: MIDIData (one MIDI file turned  *)
(* into a dict INSTRUMENT -> pianoroll, with a pickle cache keyed by the MD5  *)
(* of the path) and MIDIDataset (a list of MIDIData validated against a list  *)
(* of required instruments and stacked on access).                            *)
EXTENDS Integers, Sequences, FiniteSets, TLC

VARIABLES
    files,      \* the MIDI files on disk: path -> what pypianoroll.read gives
    cache,      \* the cache storage: its directories and its .pkl files
    dataset,    \* the MIDIDataset object built last (_midis, _instruments)
    procs,      \* the constructions running side by side: where each one stands
    res         \* the call made last: its arguments and its outcome

vars == <<files, cache, dataset, procs, res>>

(***************************************************************************)
(* Python values                                                           *)
(***************************************************************************)
None == "None"

PyNone == [type |-> "NoneType", items |-> <<>>]

PyDict(d) == [type |-> "dict", items |-> d]

\* the outcome of a call: the exception it raises (None: it returns) and its value
Return(v) == [raise |-> None, value |-> v]

Raise(e) == [raise |-> e, value |-> PyNone]

(***************************************************************************)
(* Bounds of the model                                                     *)
(***************************************************************************)
MaxTracks == 3      \* tracks of a multi_track given to the extractor alone
MaxFiles == 2       \* length of midi_files
MaxRequired == 2    \* length of the instruments list of a dataset
MaxKeys == 2        \* keys of the dict of a record given to get_instruments alone

SeqsUpTo(S, n) == UNION {[1..k -> S] : k \in 0..n}

(***************************************************************************)
(* MIDIData.INSTRUMENT: an Enum, member i of the list has the value i       *)
(* (auto() counts from 1). A plain Enum: hashable, compared by identity,   *)
(* and not ordered.                                                        *)
(***************************************************************************)
INSTRUMENT ==
    << "PIANO", "CHROMATIC_PERCUSSION", "ORGAN", "GUITAR", "BASS", "STRINGS",
       "ENSEMBLE", "BRASS", "REED", "PIPE", "SYNTH_LEAD", "SYNTH_PAD",
       "SYNTH_EFFECTS", "ETHNIC", "PERCUSSIVE", "SOUND_EFFECTS" >>

Instruments == {INSTRUMENT[i] : i \in 1..Len(INSTRUMENT)}

INSTRUMENT_value(member) == CHOOSE i \in 1..Len(INSTRUMENT) : INSTRUMENT[i] = member

\* track.program / 8 + 1 is Python 3's true division: a float. program/8 is exact
\* in binary floating point, so the float is kept exactly, as a count of eighths.
program_div_8_plus_1(program) == program + 8

\* INSTRUMENT(x): the member whose value equals x (1.0 == 1 finds PIANO);
\* a number that is no member's value raises ValueError.
INSTRUMENT_call(eighths) ==
    IF eighths % 8 = 0 /\ (eighths \div 8) \in 1..Len(INSTRUMENT)
    THEN Return(INSTRUMENT[eighths \div 8])
    ELSE Raise("ValueError")

\* the instrument of a track
instrument_of_program(program) == INSTRUMENT_call(program_div_8_plus_1(program))

(***************************************************************************)
(* Tracks and pianorolls. A pianoroll is an array of shape (T, 128); the   *)
(* model keeps T and one number v standing for its content.                *)
(***************************************************************************)
Pianorolls == {[T |-> 1, v |-> 1], [T |-> 1, v |-> 2], [T |-> 2, v |-> 3]}

Programs == 0..127

ExtractPrograms == {0, 1, 7, 8, 32, 127}

Track(program, pianoroll) == [program |-> program, pianoroll |-> pianoroll]

Tracks == {Track(p, r) : p \in ExtractPrograms, r \in Pianorolls}

(***************************************************************************)
(* MIDIData._extract_pianorolls                                            *)
(***************************************************************************)
RECURSIVE extract_loop(_, _, _)
extract_loop(tracks, i, pianorolls) ==
    IF i > Len(tracks)
    THEN Return(PyDict(pianorolls))
    ELSE LET instrument == instrument_of_program(tracks[i].program)
         IN  IF instrument.raise # None
             THEN Raise(instrument.raise)
             ELSE IF instrument.value \in DOMAIN pianorolls
                  THEN extract_loop(tracks, i + 1, pianorolls)   \* warning, continue
                  ELSE extract_loop(tracks, i + 1,
                           pianorolls @@ (instrument.value :> tracks[i].pianoroll))

_extract_pianorolls(multi_track) ==
    IF multi_track = PyNone
    THEN Raise("AttributeError")       \* None.tracks
    ELSE extract_loop(multi_track.items, 1, <<>>)

\* a pypianoroll.Multitrack: its list of tracks
Multitrack(tracks) == [type |-> "Multitrack", items |-> tracks]

(***************************************************************************)
(* The MIDI files and the external parser                                  *)
(***************************************************************************)
Paths == {"a.mid", "b.mid"}

Unparsable == [parses |-> FALSE, tracks |-> <<>>]

Parsable(tracks) == [parses |-> TRUE, tracks |-> tracks]

\* the files a path may hold: no track, one PIANO track, a PIANO and a BASS
\* track of different lengths, a track of program 1
Corpus ==
    { <<>>,
      << Track(0, [T |-> 1, v |-> 1]) >>,
      << Track(0, [T |-> 1, v |-> 1]), Track(32, [T |-> 2, v |-> 3]) >>,
      << Track(1, [T |-> 1, v |-> 1]) >> }

FileContents == {Unparsable} \cup {Parsable(t) : t \in Corpus}

\* pypianoroll.read(midi_path): "raises ValueError if MIDI is unable to be parsed"
pypianoroll_read(midi_path, fs) ==
    IF fs[midi_path].parses
    THEN Return(Multitrack(fs[midi_path].tracks))
    ELSE Raise("ValueError")

(***************************************************************************)
(* The cache storage: directories, and files holding a pickle              *)
(***************************************************************************)
CacheHomes == {"cache"}

\* hashlib.md5(midi_path.encode()).hexdigest() of the paths of the model
md5_hexdigest(midi_path) ==
    CASE midi_path = "a.mid" -> "c481fea3c4f8d2462a7b69ddb81ed95c"
      [] midi_path = "b.mid" -> "884d0b79c44a942fbb1d0ba000b97fd1"

\* the exceptions pickle.load raises on content that is no pickle of this
\* program: UnpicklingError (truncated data; EOFError on an empty file behaves
\* alike here) or ValueError (an unsupported protocol byte, a bad literal)
PickleErrors == {"UnpicklingError", "ValueError"}

EmptyCache == [dirs |-> {}, files |-> <<>>]

\* pickle.dump of the dict: an Enum member is pickled by its value
pickle_dump(pianorolls) ==
    [fails |-> None,
     pairs |-> {<<INSTRUMENT_value(k), pianorolls.items[k]>> : k \in DOMAIN pianorolls.items}]

Damaged(error) == [fails |-> error, pairs |-> {}]

\* pickle.load: the dict rebuilt, each key looked up by value
pickle_load(content) ==
    IF content.fails # None
    THEN Raise(content.fails)
    ELSE Return(PyDict([k \in {INSTRUMENT[pr[1]] : pr \in content.pairs} |->
                 (CHOOSE pr \in content.pairs : INSTRUMENT[pr[1]] = k)[2]]))

\* the outcome of a call that reads or writes storage
Out(raise, value, c, calls) == [raise |-> raise, value |-> value, cache |-> c, calls |-> calls]

(***************************************************************************)
(* MIDIData._get_cache_path, _try_pianorolls_from_cache,                   *)
(* _store_pianorolls_to_cache                                              *)
(***************************************************************************)
_get_cache_path(midi_path, cache_home) ==
    IF midi_path = None
    THEN Raise("AttributeError")       \* None.encode()
    ELSE Return(cache_home \o "/" \o md5_hexdigest(midi_path) \o ".pkl")

\* a lookup that tests the cache home, a directory, where it should test the file
try_at_isfile_of_home(cache_path, c) == Out(cache_path.raise, PyNone, c, <<"isfile">>)

\* line 119-124, with the cache_path of line 117
try_at(cache_path, c) ==
    IF cache_path.raise # None
    THEN Out(cache_path.raise, PyNone, c, <<>>)
    ELSE IF cache_path.value \in DOMAIN c.files      \* os.path.isfile
         THEN LET pianorolls == pickle_load(c.files[cache_path.value])
              IN  Out(pianorolls.raise, pianorolls.value, c, <<"isfile", "load">>)
         ELSE Out(None, PyNone, c, <<"isfile">>)

_try_pianorolls_from_cache(midi_path, cache_home, c) ==
    IF cache_home = None
    THEN Out(None, PyNone, c, <<>>)
    ELSE try_at(_get_cache_path(midi_path, cache_home), c)

\* a store that opens the file for exclusive creation and gives up when it exists
store_at_keeps_existing(cache_path, cache_home, pianorolls, c) ==
    IF cache_path.raise # None
    THEN Out(cache_path.raise, PyNone, c, <<>>)
    ELSE Out(None, PyNone,
             [dirs |-> c.dirs \cup {cache_home},
              files |-> c.files @@ (cache_path.value :> pickle_dump(pianorolls))],
             <<"dump">>)

\* line 146-150, with the cache_path of line 143
store_at(cache_path, cache_home, pianorolls, c) ==
    IF cache_path.raise # None
    THEN Out(cache_path.raise, PyNone, c, <<>>)
    ELSE Out(None, PyNone,
             [dirs |-> c.dirs \cup {cache_home},       \* os.makedirs
              files |-> (cache_path.value :> pickle_dump(pianorolls)) @@ c.files],
             <<"dump">>)

\* a store whose guard is inverted: it returns at once with a cache home too
_store_returns_early(midi_path, cache_home, pianorolls, c) == Out(None, PyNone, c, <<>>)

_store_pianorolls_to_cache(midi_path, cache_home, pianorolls, c) ==
    IF cache_home = None
    THEN Out(None, PyNone, c, <<>>)
    ELSE store_at(_get_cache_path(midi_path, cache_home), cache_home, pianorolls, c)

(***************************************************************************)
(* MIDIData.__init__                                                       *)
(***************************************************************************)
\* (the stages of __init__ below take the outcome of the call before them as
\* an argument; they are listed last stage first)

\* line 82-83: store, then keep the pianorolls
init_stored(pianorolls, stored, calls) ==
    IF stored.raise # None
    THEN Out(stored.raise, PyNone, stored.cache, calls \o stored.calls)
    ELSE Out(None, pianorolls.value, stored.cache, calls \o stored.calls)

\* line 81: extract
init_extracted(midi_path, cache_home, c, pianorolls, calls) ==
    IF pianorolls.raise # None
    THEN Out(pianorolls.raise, PyNone, c, calls)
    ELSE init_stored(pianorolls,
                     _store_pianorolls_to_cache(midi_path, cache_home, pianorolls.value, c),
                     calls)

\* line 77-79: read the file when a midi_path is given
init_read(midi_path, cache_home, c, read, calls) ==
    IF read.raise # None
    THEN Out(read.raise, PyNone, c, calls)
    ELSE init_extracted(midi_path, cache_home, c, _extract_pianorolls(read.value),
                        calls \o <<"extract">>)

\* line 72-75: the cache lookup, and what follows a miss
init_looked_up(midi_path, multi_track, cache_home, fs, c, hit) ==
    IF hit.raise # None
    THEN Out(hit.raise, PyNone, c, hit.calls)
    ELSE IF hit.value # PyNone
    THEN Out(None, hit.value, c, hit.calls)
    ELSE IF midi_path \notin {None, ""}
    THEN init_read(midi_path, cache_home, c, pypianoroll_read(midi_path, fs),
                   hit.calls \o <<"read">>)
    ELSE init_read(midi_path, cache_home, c, Return(multi_track), hit.calls)

MIDIData__init__(midi_path, multi_track, cache_home, fs, c) ==
    IF midi_path = None /\ multi_track = PyNone
    THEN Out("ValueError", PyNone, c, <<>>)
    ELSE init_looked_up(midi_path, multi_track, cache_home, fs, c,
                        _try_pianorolls_from_cache(midi_path, cache_home, c))

(***************************************************************************)
(* MIDIData.get_instruments, MIDIData.get_pianoroll                        *)
(***************************************************************************)
\* sorted(list(self._pianorolls.keys())): the members of a plain Enum have no
\* order, so comparing two of them raises TypeError; a list of fewer than two
\* is returned as it is
get_instruments(midi) ==
    IF Cardinality(DOMAIN midi.items) >= 2
    THEN Raise("TypeError")
    ELSE Return(IF DOMAIN midi.items = {} THEN <<>>
                ELSE << CHOOSE k \in DOMAIN midi.items : TRUE >>)

get_pianoroll(midi, instrument) ==
    IF instrument \in DOMAIN midi.items
    THEN Return(midi.items[instrument])
    ELSE Raise("KeyError")

(***************************************************************************)
(* MIDIDataset.__init__, validate_data, __len__, __getitem__               *)
(***************************************************************************)
\* the loop over midi_files: a ValueError of a construction skips the file,
\* any other exception leaves the loop and the constructor
RECURSIVE load_midis(_, _, _, _, _, _, _)
\* line 228-235: what the loop does with the outcome of one construction
loaded_one(midi_files, i, cache_home, fs, midis, kept, midi_data) ==
    IF midi_data.raise = "ValueError"
    THEN load_midis(midi_files, i + 1, cache_home, fs, midi_data.cache, midis, kept)
    ELSE IF midi_data.raise # None
    THEN [raise |-> midi_data.raise, midis |-> midis, kept |-> kept,
          cache |-> midi_data.cache]
    ELSE load_midis(midi_files, i + 1, cache_home, fs, midi_data.cache,
                    Append(midis, midi_data.value), Append(kept, midi_files[i]))

load_midis(midi_files, i, cache_home, fs, c, midis, kept) ==
    IF i > Len(midi_files)
    THEN [raise |-> None, midis |-> midis, kept |-> kept, cache |-> c]
    ELSE loaded_one(midi_files, i, cache_home, fs, midis, kept,
                    MIDIData__init__(midi_files[i], PyNone, cache_home, fs, c))

\* validate_data: the first (midi, instrument) in loop order that fails
RECURSIVE validate_data(_, _, _, _)
validate_data(midis, instruments, m, i) ==
    IF m > Len(midis)
    THEN [raise |-> None, missing |-> None]
    ELSE IF i > Len(instruments)
    THEN validate_data(midis, instruments, m + 1, 1)
    ELSE LET present == get_instruments(midis[m])
         IN  IF present.raise # None
             THEN [raise |-> present.raise, missing |-> None]
             ELSE IF \E j \in 1..Len(present.value) : present.value[j] = instruments[i]
             THEN validate_data(midis, instruments, m, i + 1)
             ELSE [raise |-> "ValueError", missing |-> instruments[i]]

\* line 237-239: after the loop, validate
init_loaded(instruments, loaded) ==
    IF loaded.raise # None
    THEN [raise |-> loaded.raise, phase |-> "load", missing |-> None,
          midis |-> loaded.midis, kept |-> loaded.kept, cache |-> loaded.cache]
    ELSE LET valid == validate_data(loaded.midis, instruments, 1, 1)
         IN  [raise |-> valid.raise, phase |-> "validate", missing |-> valid.missing,
              midis |-> loaded.midis, kept |-> loaded.kept, cache |-> loaded.cache]

MIDIDataset__init__(midi_files, instruments, cache_home, fs, c) ==
    init_loaded(instruments, load_midis(midi_files, 1, cache_home, fs, c, <<>>, <<>>))

MIDIDataset__len__(self) == Len(self.midis)

\* a stack along axis 0, of shape (K, T, 128)
np_stack_axis0(arrays) ==
    IF Len(arrays) = 0 \/ \E j \in 1..Len(arrays) : arrays[j].T # arrays[1].T
    THEN Raise("ValueError")
    ELSE Return([type |-> "ndarray", shape |-> <<Len(arrays), arrays[1].T, 128>>,
                 items |-> arrays])

\* np.stack(arrays, axis=2) of arrays of shape (T, 128): an empty list and
\* arrays of different shapes raise ValueError
np_stack(arrays) ==
    IF Len(arrays) = 0
    THEN Raise("ValueError")
    ELSE IF \E j \in 1..Len(arrays) : arrays[j].T # arrays[1].T
    THEN Raise("ValueError")
    ELSE Return([type |-> "ndarray", shape |-> <<arrays[1].T, 128, Len(arrays)>>,
                 items |-> arrays])

MIDIDataset__getitem__(self, index) ==
    IF index >= Len(self.midis) \/ index < -Len(self.midis)
    THEN Raise("IndexError")
    ELSE LET midi == self.midis[IF index >= 0 THEN index + 1 ELSE Len(self.midis) + index + 1]
             pianorolls == [j \in 1..Len(self.instruments) |->
                               get_pianoroll(midi, self.instruments[j])]
         IN  IF \E j \in 1..Len(self.instruments) : pianorolls[j].raise # None
             THEN Raise("KeyError")
             ELSE np_stack([j \in 1..Len(self.instruments) |-> pianorolls[j].value])

(***************************************************************************)
(* State outside the part a specification exercises                        *)
(***************************************************************************)
NoFiles == [p \in Paths |-> Unparsable]

NoDataset == [built |-> FALSE, midis |-> <<>>, instruments |-> <<>>]

\* no construction is running side by side with another
NoProcs == <<>>

OptionalPaths == Paths \cup {None}

OptionalHomes == CacheHomes \cup {None}

OptionalMultitracks ==
    {PyNone} \cup {Multitrack(t) : t \in Corpus}
        \cup {Multitrack(<< Track(0, [T |-> 1, v |-> 1]), Track(0, [T |-> 1, v |-> 2]) >>)}

\* the arguments of MIDIData(...): with a midi_path the multi_track is ignored,
\* so it is varied in full only without one
ConstructorArgs ==
    {<<None, mt, h>> : mt \in OptionalMultitracks, h \in OptionalHomes}
        \cup {<<p, mt, h>> : p \in Paths, mt \in {PyNone, Multitrack(<<>>)}, h \in OptionalHomes}

\* the dicts handed to a direct _store_pianorolls_to_cache
StoredDicts ==
    { PyDict(<<>>),
      PyDict("PIANO" :> [T |-> 1, v |-> 2]),
      PyDict(("PIANO" :> [T |-> 1, v |-> 1]) @@ ("BASS" :> [T |-> 2, v |-> 3])) }

(***************************************************************************)
(* The mapper alone: a program is drawn, then mapped                       *)
(***************************************************************************)
InitMapper ==
    /\ files = NoFiles /\ cache = EmptyCache /\ dataset = NoDataset /\ procs = NoProcs
    /\ \E program \in Programs : res = [op |-> "program", program |-> program]

MapProgram ==
    /\ res.op = "program"
    /\ res' = [op |-> "instrument", program |-> res.program,
               out |-> instrument_of_program(res.program)]
    /\ UNCHANGED <<procs, files, cache, dataset>>

SpecMapper == InitMapper /\ [][MapProgram]_vars

(***************************************************************************)
(* The extractor alone: a list of tracks is drawn, then extracted          *)
(***************************************************************************)
InitExtract ==
    /\ files = NoFiles /\ cache = EmptyCache /\ dataset = NoDataset /\ procs = NoProcs
    /\ \E tracks \in SeqsUpTo(Tracks, MaxTracks) : res = [op |-> "tracks", tracks |-> tracks]

Extract ==
    /\ res.op = "tracks"
    /\ res' = [op |-> "pianorolls", tracks |-> res.tracks,
               out |-> _extract_pianorolls(Multitrack(res.tracks))]
    /\ UNCHANGED <<procs, files, cache, dataset>>

SpecExtract == InitExtract /\ [][Extract]_vars

(***************************************************************************)
(* Records and the cache: MIDIData objects are constructed, the cache is   *)
(* read and written directly, files change and cache files get damaged     *)
(***************************************************************************)
Init ==
    /\ files \in [Paths -> FileContents]
    /\ cache = EmptyCache
    /\ dataset = NoDataset /\ procs = NoProcs
    /\ res = [op |-> "start"]

\* MIDIData(midi_path=..., multi_track=..., cache_home=...)
NewMIDIData(midi_path, multi_track, cache_home) ==
    \E out \in {MIDIData__init__(midi_path, multi_track, cache_home, files, cache)} :
        /\ res' = [op |-> "MIDIData", midi_path |-> midi_path, multi_track |-> multi_track,
                   cache_home |-> cache_home, raise |-> out.raise,
                   pianorolls |-> out.value, calls |-> out.calls]
        /\ cache' = out.cache
        /\ UNCHANGED <<procs, files, dataset>>

\* test_mididata_pianorolls_cache, one round of its loop: construct, look the
\* cache up, construct again
TestPianorollsCache(midi_path, cache_home) ==
    LET midi == MIDIData__init__(midi_path, PyNone, cache_home, files, cache)
        probe == _try_pianorolls_from_cache(midi_path, cache_home, midi.cache)
        midi2 == MIDIData__init__(midi_path, PyNone, cache_home, files, midi.cache)
    IN  /\ res' = [op |-> "test_cache", midi_path |-> midi_path, cache_home |-> cache_home,
                   raise |-> midi.raise, pianorolls |-> midi.value,
                   probe |-> IF midi.raise = None THEN probe.value ELSE PyNone,
                   raise2 |-> IF midi.raise = None THEN midi2.raise ELSE "not run",
                   pianorolls2 |-> IF midi.raise = None THEN midi2.value ELSE PyNone]
        /\ cache' = IF midi.raise = None THEN midi2.cache ELSE midi.cache
        /\ UNCHANGED <<procs, files, dataset>>

\* a direct call of _store_pianorolls_to_cache
StoreToCache(midi_path, cache_home, pianorolls) ==
    LET out == _store_pianorolls_to_cache(midi_path, cache_home, pianorolls, cache)
    IN  /\ res' = [op |-> "store", midi_path |-> midi_path, cache_home |-> cache_home,
                   pianorolls |-> pianorolls, raise |-> out.raise,
                   overwrites |-> \E cache_path \in DOMAIN cache.files :
                                      out.cache.files[cache_path] # cache.files[cache_path]]
        /\ cache' = out.cache
        /\ UNCHANGED <<procs, files, dataset>>

\* a direct call of _try_pianorolls_from_cache
TryFromCache(midi_path, cache_home) ==
    LET out == _try_pianorolls_from_cache(midi_path, cache_home, cache)
    IN  /\ res' = [op |-> "try", midi_path |-> midi_path, cache_home |-> cache_home,
                   raise |-> out.raise, pianorolls |-> out.value, calls |-> out.calls]
        /\ cache' = out.cache
        /\ UNCHANGED <<procs, files, dataset>>

\* outside the program: the file at a path is removed or overwritten with
\* something that is no MIDI file
FileChanges(midi_path) ==
    /\ files[midi_path] # Unparsable
    /\ files' = [files EXCEPT ![midi_path] = Unparsable]
    /\ res' = [op |-> "outside"]
    /\ UNCHANGED <<procs, cache, dataset>>

\* outside the program: a cache file's content stops being a readable pickle
CacheFileDamaged(cache_path, error) ==
    /\ cache_path \in DOMAIN cache.files
    /\ cache.files[cache_path] # Damaged(error)
    /\ cache' = [cache EXCEPT !.files[cache_path] = Damaged(error)]
    /\ res' = [op |-> "outside"]
    /\ UNCHANGED <<procs, files, dataset>>

Outside ==
    \/ \E midi_path \in Paths : FileChanges(midi_path)
    \/ \E cache_path \in DOMAIN cache.files, error \in PickleErrors :
           CacheFileDamaged(cache_path, error)

Next ==
    \/ \E args \in ConstructorArgs : NewMIDIData(args[1], args[2], args[3])
    \/ \E midi_path \in Paths, cache_home \in CacheHomes :
           TestPianorollsCache(midi_path, cache_home)
    \/ \E midi_path \in Paths, cache_home \in OptionalHomes, pianorolls \in StoredDicts :
           StoreToCache(midi_path, cache_home, pianorolls)
    \/ \E midi_path \in Paths, cache_home \in OptionalHomes : TryFromCache(midi_path, cache_home)
    \/ Outside

Spec == Init /\ [][Next]_vars

(***************************************************************************)
(* The mapper and the extractor                                            *)
(***************************************************************************)
\* the Instrument whose 1-based ordinal is (program div 8) + 1
Bucket(program) == INSTRUMENT[(program \div 8) + 1]

\* C1: for every program p in 0..127 the mapping succeeds and yields the
\* Instrument of ordinal (p div 8) + 1, so p and the first program 8k of its
\* group of eight map alike.
C1_MapProgramTotal ==
    res.op = "instrument" =>
        /\ res.out.raise = None
        /\ res.out.value = Bucket(res.program)
        /\ res.out = instrument_of_program(8 * (res.program \div 8))

\* the index of the first track of the list that belongs to the instrument
FirstTrackOf(tracks, instrument) ==
    CHOOSE i \in 1..Len(tracks) :
        /\ Bucket(tracks[i].program) = instrument
        /\ \A j \in 1..(i - 1) : Bucket(tracks[j].program) # instrument

\* C2: extraction of any list of tracks returns, without error, a dict whose
\* keys are exactly the Instruments the tracks map to (at most 16) and whose
\* value for an Instrument is the pianoroll of the first track mapping to it.
C2_ExtractFirstWins ==
    res.op = "pianorolls" =>
        /\ res.out.raise = None
        /\ res.out.value.type = "dict"
        /\ DOMAIN res.out.value.items = {Bucket(res.tracks[i].program) : i \in 1..Len(res.tracks)}
        /\ Cardinality(DOMAIN res.out.value.items) <= Len(INSTRUMENT)
        /\ \A k \in DOMAIN res.out.value.items :
               res.out.value.items[k] = res.tracks[FirstTrackOf(res.tracks, k)].pianoroll

(***************************************************************************)
(* The cache                                                               *)
(***************************************************************************)
\* the storage location of a path under a cache home
CachePath(midi_path, cache_home) == _get_cache_path(midi_path, cache_home).value

\* C6: a store followed by a lookup with the same path and cache home returns a
\* dict equal to the one stored, whatever the location held before; a lookup of
\* a location that was never written returns None; and of two successive
\* constructions with one path and cache home the second holds the map of the
\* first.
C6_CacheRoundTrip ==
    /\ (res.op = "store" /\ res.cache_home # None) =>
           LET got == _try_pianorolls_from_cache(res.midi_path, res.cache_home, cache)
           IN  res.raise = None /\ got.raise = None /\ got.value = res.pianorolls
    /\ (res.op = "try" /\ res.cache_home # None
          /\ CachePath(res.midi_path, res.cache_home) \notin DOMAIN cache.files) =>
           res.raise = None /\ res.pianorolls = PyNone
    /\ (res.op = "test_cache" /\ res.raise = None) =>
           /\ res.probe = res.pianorolls
           /\ res.raise2 = None
           /\ res.pianorolls2 = res.pianorolls

\* a dict of two instruments was stored over an earlier, different entry
C6_Witness ==
    /\ res.op = "store" /\ res.cache_home # None /\ res.overwrites
    /\ DOMAIN res.pianorolls.items = {"PIANO", "BASS"}

\* C7: a construction that finds a readable entry for its path adopts the stored
\* dict, calls neither the parser nor the extractor, and leaves the cache as it
\* is; the file at the path plays no part.
C7_HitSkipsParsing ==
    [][ (/\ res'.op = "MIDIData" /\ res'.midi_path # None /\ res'.cache_home # None
         /\ CachePath(res'.midi_path, res'.cache_home) \in DOMAIN cache.files
         /\ cache.files[CachePath(res'.midi_path, res'.cache_home)].fails = None)
        => /\ res'.raise = None
           /\ res'.pianorolls =
                  pickle_load(cache.files[CachePath(res'.midi_path, res'.cache_home)]).value
           /\ res'.calls = <<"isfile", "load">>
           /\ cache' = cache ]_vars

\* a record came from the cache although its file does not parse
C7_Witness ==
    /\ res.op = "MIDIData" /\ res.raise = None /\ res.calls = <<"isfile", "load">>
    /\ res.midi_path # None /\ files[res.midi_path] = Unparsable
    /\ DOMAIN res.pianorolls.items # {}

\* C8: on a miss the parser, the extractor and the store run in that order; after
\* a successful construction with a cache home the entry of the path equals the
\* record's map; a construction failing in the parser or the extractor leaves
\* the cache unchanged.
C8_MissParsesExtractsStores ==
    [][ (res'.op = "MIDIData" /\ res'.midi_path # None /\ res'.cache_home # None) =>
        LET miss == CachePath(res'.midi_path, res'.cache_home) \notin DOMAIN cache.files
            got == _try_pianorolls_from_cache(res'.midi_path, res'.cache_home, cache')
        IN  /\ (miss /\ res'.raise = None) =>
                   res'.calls = <<"isfile", "read", "extract", "dump">>
            /\ (miss /\ res'.raise # None) =>
                   /\ res'.calls \in {<<"isfile", "read">>, <<"isfile", "read", "extract">>}
                   /\ cache' = cache
            /\ res'.raise = None => (got.raise = None /\ got.value = res'.pianorolls)
      ]_vars

\* a record of two instruments was parsed, extracted and stored
C8_Witness ==
    /\ res.op = "MIDIData" /\ res.raise = None
    /\ res.calls = <<"isfile", "read", "extract", "dump">>
    /\ DOMAIN res.pianorolls.items = {"PIANO", "BASS"}

\* C10: a construction from tracks alone, with or without a cache home, gives
\* what extracting the tracks gives, touches no cache file and leaves the cache
\* unchanged.
C10_TracksBypassCache ==
    [][ (res'.op = "MIDIData" /\ res'.midi_path = None /\ res'.multi_track # PyNone) =>
        LET pianorolls == _extract_pianorolls(res'.multi_track)
        IN  /\ res'.raise = pianorolls.raise
            /\ res'.pianorolls = pianorolls.value
            /\ res'.calls = <<"extract">>
            /\ cache' = cache ]_vars

(***************************************************************************)
(* Datasets, as train.py uses them: a run builds one MIDIDataset from a list *)
(* of paths and reads it by index; the run ends (by itself, or with the    *)
(* exception the constructor raised) before another begins; the cache      *)
(* stays on disk from run to run, where files change and cache files get   *)
(* damaged                                                                 *)
(***************************************************************************)
RequiredInstruments == {"PIANO", "BASS"}

\* MIDIDataset(midi_files=..., instruments=..., cache_home=...)
NewMIDIDataset(midi_files, instruments, cache_home) ==
    /\ ~dataset.built /\ res.op \in {"start", "outside"}
    /\ \E out \in {MIDIDataset__init__(midi_files, instruments, cache_home, files, cache)} :
        /\ res' = [op |-> "MIDIDataset", midi_files |-> midi_files,
                   instruments |-> instruments, cache_home |-> cache_home,
                   raise |-> out.raise, phase |-> out.phase, missing |-> out.missing,
                   midis |-> out.midis, kept |-> out.kept]
        /\ cache' = out.cache
        /\ dataset' = IF out.raise = None
                      THEN [built |-> TRUE, midis |-> out.midis, instruments |-> instruments]
                      ELSE dataset
        /\ UNCHANGED <<procs, files>>

\* dataset[index]
GetItem(index) ==
    /\ dataset.built
    /\ \E out \in {MIDIDataset__getitem__(dataset, index)} :
        res' = [op |-> "getitem", index |-> index, raise |-> out.raise, array |-> out.value]
    /\ UNCHANGED <<procs, files, cache, dataset>>

\* len(dataset)
GetLen ==
    /\ dataset.built
    /\ res' = [op |-> "len", len |-> MIDIDataset__len__(dataset)]
    /\ UNCHANGED <<procs, files, cache, dataset>>

\* the run ends: the dataset object, if one was built, is gone
EndRun ==
    /\ res.op \notin {"start", "outside"}
    /\ dataset' = NoDataset
    /\ res' = [op |-> "outside"]
    /\ UNCHANGED <<procs, files, cache>>

NextDataset ==
    \/ \E midi_files \in SeqsUpTo(Paths, MaxFiles),
          instruments \in SeqsUpTo(RequiredInstruments, MaxRequired),
          cache_home \in OptionalHomes : NewMIDIDataset(midi_files, instruments, cache_home)
    \/ \E index \in 0..MaxFiles : GetItem(index)
    \/ GetLen
    \/ EndRun
    \/ Outside

SpecDataset == Init /\ [][NextDataset]_vars

(***************************************************************************)
(* The dataset                                                             *)
(***************************************************************************)
Parses(midi_path) == files[midi_path].parses

\* C3: when a build passes validation, its records are the input paths the
\* parser can read, in the given order, and len() counts them; a parse error
\* never aborts the load.
C3_BuildKeepsParsablePaths ==
    /\ (res.op = "MIDIDataset" /\ res.raise = None) =>
           /\ res.kept = SelectSeq(res.midi_files, Parses)
           /\ MIDIDataset__len__(dataset) = Len(res.kept)
    /\ (res.op = "MIDIDataset" /\ res.cache_home = None) => res.phase = "validate"

\* the required instruments that some loaded record lacks
Lacking(midis, instruments) ==
    {instruments[i] : i \in {j \in 1..Len(instruments) :
                                \E m \in 1..Len(midis) : instruments[j] \notin DOMAIN midis[m].items}}

\* C4: a build whose load has finished returns only if every record has every
\* required Instrument, and otherwise fails with the validation error, a
\* ValueError naming a missing Instrument, however many Instruments the records
\* hold.
C4_ValidationAllOrNothing ==
    (res.op = "MIDIDataset" /\ res.phase = "validate") =>
        /\ res.raise = None => Lacking(res.midis, res.instruments) = {}
        /\ Lacking(res.midis, res.instruments) # {} =>
               (res.raise = "ValueError" /\ res.missing \in Lacking(res.midis, res.instruments))
        /\ Lacking(res.midis, res.instruments) = {} => res.raise = None

\* what get(index) is to return: K channels, channel j the pianoroll the record
\* holds for required instrument j, all of one length T
IsStackOf(array, midi, instruments) ==
    /\ array.type = "ndarray"
    /\ Len(array.items) = Len(instruments)
    /\ \A j \in 1..Len(instruments) :
           /\ instruments[j] \in DOMAIN midi.items
           /\ array.items[j] = midi.items[instruments[j]]
           /\ array.shape = <<array.items[j].T, 128, Len(instruments)>>
    /\ Len(array.shape) = 3 /\ array.shape[2] = 128 /\ array.shape[3] = Len(instruments)

DamagedPaths(midi_files, cache_home, c) ==
    {i \in 1..Len(midi_files) :
        /\ CachePath(midi_files[i], cache_home) \in DOMAIN c.files
        /\ c.files[CachePath(midi_files[i], cache_home)].fails # None}

\* C9: a build that comes upon a cache file it cannot deserialize ends in that
\* error, raised to the caller of the build: the file is not skipped with a
\* warning, the parser is not tried instead, and the cache file stays as it is.
C9_DamagedEntryIsFatal ==
    [][ (/\ res'.op = "MIDIDataset" /\ res'.cache_home # None
         /\ DamagedPaths(res'.midi_files, res'.cache_home, cache) # {})
        => /\ res'.raise \in PickleErrors
           /\ res'.phase = "load"
           /\ \A i \in DamagedPaths(res'.midi_files, res'.cache_home, cache) :
                  cache'.files[CachePath(res'.midi_files[i], res'.cache_home)]
                      = cache.files[CachePath(res'.midi_files[i], res'.cache_home)]
      ]_vars


(***************************************************************************)
(* get_instruments alone: a record is drawn (the keys of its dict in the   *)
(* order the tracks put them in), then asked for its instruments           *)
(***************************************************************************)
\* the lists of distinct Instruments of at most MaxKeys members
KeyOrders ==
    {keys \in SeqsUpTo(Instruments, MaxKeys) :
        \A i, j \in 1..Len(keys) : i # j => keys[i] # keys[j]}

\* the _pianorolls of a record whose tracks came in this order
RecordOf(keys) == PyDict([k \in {keys[i] : i \in 1..Len(keys)} |-> [T |-> 1, v |-> 1]])

InitRecord ==
    /\ files = NoFiles /\ cache = EmptyCache /\ dataset = NoDataset /\ procs = NoProcs
    /\ \E keys \in KeyOrders : res = [op |-> "record", keys |-> keys]

GetInstruments ==
    /\ res.op = "record"
    /\ res' = [op |-> "instruments", keys |-> res.keys,
               out |-> get_instruments(RecordOf(res.keys))]
    /\ UNCHANGED <<procs, files, cache, dataset>>

SpecInstruments == InitRecord /\ [][GetInstruments]_vars

\* the members of a set of Instruments in ascending enumeration order
Ascending(S) ==
    [i \in 1..Cardinality(S) |->
        CHOOSE k \in S :
            Cardinality({l \in S : INSTRUMENT_value(l) < INSTRUMENT_value(k)}) = i - 1]

\* C11: for a record of any number of Instruments (0, 1 or several),
\* instruments() succeeds and returns each key of the dict exactly once, in
\* ascending enumeration order, whatever order the tracks came in.
C11_InstrumentsSorted ==
    res.op = "instruments" =>
        /\ res.out.raise = None
        /\ res.out.value = Ascending({res.keys[i] : i \in 1..Len(res.keys)})


(***************************************************************************)
(* Constructions side by side: each process runs MIDIData(midi_path=...,   *)
(* cache_home=...) for the same path and cache home, one system call at a  *)
(* time; nothing in the code locks the cache file                          *)
(***************************************************************************)
Procs == {"p", "q"}

RacePath == "a.mid"

RaceHome == "cache"

RaceCachePath == CachePath(RacePath, RaceHome)

\* what the file at the path holds over time: two versions of one piece (the
\* same tracks of the same length, other notes), a piece with a track the
\* extractor rejects, and something that is no MIDI file
RaceContents ==
    { Parsable(<< Track(0, [T |-> 1, v |-> 1]), Track(32, [T |-> 1, v |-> 1]) >>),
      Parsable(<< Track(0, [T |-> 1, v |-> 2]), Track(32, [T |-> 1, v |-> 2]) >>),
      Parsable(<< Track(1, [T |-> 1, v |-> 1]) >>),
      Unparsable }

\* pickle.dump(pianorolls, f_cache) reaches the file in several writes: each
\* array is written as it is pickled, and the end of the stream (the STOP
\* opcode) when the file is closed. The keys are written in the order of the
\* dict, which for RaceContents is the order of the enumeration.
Chunks(pianorolls) ==
    LET keys == Ascending(DOMAIN pianorolls.items)
    IN  [i \in 1..(Len(keys) + 1) |->
            IF i <= Len(keys)
            THEN <<INSTRUMENT_value(keys[i]), pianorolls.items[keys[i]]>>
            ELSE <<0, "STOP">>]

\* a write of one chunk at an offset of the process's own file object: what
\* another process wrote there is overwritten, a gap before it reads as zeros
WriteAt(chunks, pos, chunk) ==
    [i \in 1..(IF pos > Len(chunks) THEN pos ELSE Len(chunks)) |->
        IF i = pos THEN chunk
        ELSE IF i <= Len(chunks) THEN chunks[i]
        ELSE <<0, "zeros">>]

\* the chunks before the first STOP, if there is one and no zeros come first
RECURSIVE Readable(_, _)
Readable(chunks, i) ==
    IF i > Len(chunks) THEN IF i = 1 THEN "EOFError" ELSE "UnpicklingError"
    ELSE IF chunks[i] = <<0, "STOP">> THEN None
    ELSE IF chunks[i] = <<0, "zeros">> THEN "UnpicklingError"
    ELSE Readable(chunks, i + 1)

StopAt(chunks) == CHOOSE i \in 1..Len(chunks) :
                      chunks[i] = <<0, "STOP">> /\ \A j \in 1..(i - 1) : chunks[j] # <<0, "STOP">>

\* the content of a cache file made of these chunks, as pickle.load takes it:
\* it fails on an empty file (EOFError), on a stream that ends before its
\* STOP and on zeros (UnpicklingError), and stops reading at the STOP
Written(chunks) ==
    IF Readable(chunks, 1) # None
    THEN [fails |-> Readable(chunks, 1), pairs |-> {}, chunks |-> chunks]
    ELSE [fails |-> None, pairs |-> {chunks[i] : i \in 1..(StopAt(chunks) - 1)},
          chunks |-> chunks]

\* where a construction stands: pc names the line it executes next
Proc(pc, pianorolls, pos, raise, early) ==
    [pc |-> pc, pianorolls |-> pianorolls, pos |-> pos, raise |-> raise, early |-> early]

\* the processes that have the cache file open for writing
Writing == {p \in Procs : procs[p].pc \in {"dump", "close"}}

InitRace ==
    /\ files \in {[NoFiles EXCEPT ![RacePath] = content] : content \in RaceContents}
    /\ cache = EmptyCache
    /\ dataset = NoDataset
    /\ procs = [p \in Procs |-> Proc("isfile", PyNone, 0, None, FALSE)]
    /\ res = [op |-> "race", closed |-> <<>>]

\* line 119: os.path.isfile(cache_path)
IsFile(p) ==
    /\ procs[p].pc = "isfile"
    /\ procs' = [procs EXCEPT ![p].pc =
                    IF RaceCachePath \in DOMAIN cache.files THEN "load" ELSE "read"]
    /\ UNCHANGED <<files, cache, dataset, res>>

\* line 120-122: open the cache file and pickle.load it; an error ends the
\* construction (early: another process had the file open for writing)
Load(p) ==
    /\ procs[p].pc = "load"
    /\ \E out \in {pickle_load(cache.files[RaceCachePath])} :
        procs' = [procs EXCEPT ![p] =
                    Proc(IF out.raise = None THEN "done" ELSE "raised",
                         out.value, 0, out.raise, Writing # {})]
    /\ UNCHANGED <<files, cache, dataset, res>>

\* line 77-81: pypianoroll.read and _extract_pianorolls
ReadAndExtract(p) ==
    /\ procs[p].pc = "read"
    /\ \E read \in {pypianoroll_read(RacePath, files)} :
        \E out \in {IF read.raise # None THEN read ELSE _extract_pianorolls(read.value)} :
            procs' = [procs EXCEPT ![p] =
                        Proc(IF out.raise = None THEN "isdir" ELSE "raised",
                             out.value, 0, out.raise, FALSE)]
    /\ UNCHANGED <<files, cache, dataset, res>>

\* line 146: os.path.isdir(os.path.dirname(cache_path))
IsDir(p) ==
    /\ procs[p].pc = "isdir"
    /\ procs' = [procs EXCEPT ![p].pc = IF RaceHome \in cache.dirs THEN "open" ELSE "makedirs"]
    /\ UNCHANGED <<files, cache, dataset, res>>

\* line 147: os.makedirs, which raises when the directory exists by now
MakeDirs(p) ==
    /\ procs[p].pc = "makedirs"
    /\ IF RaceHome \in cache.dirs
       THEN /\ procs' = [procs EXCEPT ![p].pc = "raised", ![p].raise = "FileExistsError"]
            /\ UNCHANGED cache
       ELSE /\ procs' = [procs EXCEPT ![p].pc = "open"]
            /\ cache' = [cache EXCEPT !.dirs = cache.dirs \cup {RaceHome}]
    /\ UNCHANGED <<files, dataset, res>>

\* line 149: open(cache_path, "wb+") creates the file or truncates it
Open(p) ==
    /\ procs[p].pc = "open"
    /\ cache' = [cache EXCEPT !.files = (RaceCachePath :> Written(<<>>)) @@ cache.files]
    /\ procs' = [procs EXCEPT ![p].pc = "dump", ![p].pos = 1]
    /\ UNCHANGED <<files, dataset, res>>

\* line 150: pickle.dump, one write of it
Dump(p) ==
    /\ procs[p].pc = "dump"
    /\ \E chunks \in {Chunks(procs[p].pianorolls)} :
        /\ cache' = [cache EXCEPT !.files[RaceCachePath] =
                        Written(WriteAt(cache.files[RaceCachePath].chunks,
                                        procs[p].pos, chunks[procs[p].pos]))]
        /\ procs' = [procs EXCEPT ![p].pos = procs[p].pos + 1,
                                  ![p].pc = IF procs[p].pos + 1 = Len(chunks)
                                            THEN "close" ELSE "dump"]
    /\ UNCHANGED <<files, dataset, res>>

\* line 149-150, the end of the with block: the file is closed, which writes
\* what pickle.dump left in the buffer, the end of the stream; line 83
Close(p) ==
    /\ procs[p].pc = "close"
    /\ \E chunks \in {Chunks(procs[p].pianorolls)} :
        cache' = [cache EXCEPT !.files[RaceCachePath] =
                    Written(WriteAt(cache.files[RaceCachePath].chunks,
                                    procs[p].pos, chunks[procs[p].pos]))]
    /\ procs' = [procs EXCEPT ![p].pc = "done"]
    /\ res' = [res EXCEPT !.closed = Append(res.closed, p)]
    /\ UNCHANGED <<files, dataset>>

\* outside the program: the file at the path is replaced
FileRewritten(content) ==
    /\ files[RacePath] # content
    /\ \E p \in Procs : procs[p].pc \in {"isfile", "read"}
    /\ files' = [files EXCEPT ![RacePath] = content]
    /\ UNCHANGED <<cache, dataset, procs, res>>

NextRace ==
    \/ \E p \in Procs :
           \/ IsFile(p) \/ Load(p) \/ ReadAndExtract(p)
           \/ IsDir(p) \/ MakeDirs(p) \/ Open(p) \/ Dump(p) \/ Close(p)
    \/ \E content \in RaceContents : FileRewritten(content)

SpecRace == InitRace /\ [][NextRace]_vars

\* every construction has returned or raised
AllFinished == \A p \in Procs : procs[p].pc \in {"done", "raised"}

\* a construction read the cache file while another had it open for writing
\* and had not closed it, and found no complete entry there
PartialObserved ==
    \E p \in Procs : procs[p].early /\ procs[p].raise \in {"EOFError", "UnpicklingError"}

\* C12: the cache takes no lock and a write is not atomic, so a construction
\* can read the entry between another's open and the end of its write and
\* observe a partial entry (the reachable state PartialObserved); and once all
\* the concurrent writers to the entry have finished, the entry holds the
\* dict of the writer that finished its write last.
C12_LastWriterWins ==
    (AllFinished /\ res.closed # <<>>) =>
        pickle_load(cache.files[RaceCachePath])
            = Return(procs[res.closed[Len(res.closed)]].pianorolls)

=============================================================================
